---- MODULE Spec2Model ----
(***************************************************************************)
(* Model of src/app.py: a Streamlit script that loads a table of health    *)
(* facilities, filters it through the sidebar widgets and derives a map    *)
(* table, a proximity search, a 24h-emergency table and a commune ranking. *)
(*                                                                         *)
(* A Streamlit script is re-executed from its first line on every widget   *)
(* interaction.  One action of the model is one such execution: the user   *)
(* changes one widget and the whole script runs again.  The variables hold *)
(* the values of the script's variables at the end of the execution.       *)
(*                                                                         *)
(* Strings are sequences of code points, so that ordering, emptiness,      *)
(* whitespace and substring search are computed.  A cell of a table is a   *)
(* tagged value: a string, a number or NA (None / NaN).                    *)
(***************************************************************************)
EXTENDS Integers, Sequences, FiniteSets, TLC

(* ---------------------------- bounds ----------------------------------- *)

\* Largest number of records the data source returns in the model.
MaxRows == 2

(* ---------------------------- cells ------------------------------------ *)

\* v is always a sequence of integers: the code points of a string, the one
\* value of a number, nothing for a missing cell.
Str(s) == [t |-> "str", v |-> s]
Num(n) == [t |-> "num", v |-> <<n>>]
\* None and NaN: pandas treats both as missing.
NA == [t |-> "na", v |-> <<>>]
\* Marks a key that a raw record does not carry at all.
NoKey == [t |-> "nokey", v |-> <<>>]
\* The value of a number cell.
Val(cell) == cell.v[1]

\* "Todas", "Todos", "Público", "Privado", "Sí" as code points.
Todas == <<84, 111, 100, 97, 115>>
Todos == <<84, 111, 100, 111, 115>>
Publico == <<80, 250, 98, 108, 105, 99, 111>>
Privado == <<80, 114, 105, 118, 97, 100, 111>>
Si == <<83, 237>>

(* ---------------------------- strings ---------------------------------- *)

\* Python's str ordering: lexicographic by code point.
RECURSIVE StrLess(_, _)
StrLess(s, t) ==
  IF s = <<>> THEN t # <<>>
  ELSE IF t = <<>> THEN FALSE
  ELSE IF Head(s) < Head(t) THEN TRUE
  ELSE IF Head(s) > Head(t) THEN FALSE
  ELSE StrLess(Tail(s), Tail(t))

\* Substring search, as str.contains does for a pattern without regex
\* metacharacters.
Contains(s, pat) ==
  \E i \in 1..(Len(s) - Len(pat) + 1) : SubSeq(s, i, i + Len(pat) - 1) = pat

\* Series.str.contains(pat, na=na): a missing cell yields na.
StrContains(cell, pat, na) ==
  IF cell.t = "str" THEN Contains(cell.v, pat) ELSE na

\* Series.unique(): the distinct values in order of first appearance.
RECURSIVE unique(_)
unique(s) ==
  IF s = <<>> THEN <<>>
  ELSE LET u == unique(SubSeq(s, 1, Len(s) - 1))
           x == s[Len(s)]
       IN IF \E i \in 1..Len(u) : u[i] = x THEN u ELSE Append(u, x)

RECURSIVE Insert(_, _)
Insert(x, s) ==
  IF s = <<>> THEN <<x>>
  ELSE IF StrLess(x.v, Head(s).v) THEN <<x>> \o s
  ELSE <<Head(s)>> \o Insert(x, Tail(s))

\* Python's sorted() on a list of str.
RECURSIVE sorted(_)
sorted(s) ==
  IF s = <<>> THEN <<>> ELSE Insert(s[Len(s)], sorted(SubSeq(s, 1, Len(s) - 1)))

(* ---------------------------- numbers ---------------------------------- *)

\* Coordinates are held in hundredths of a degree: -3345 is -33.45.
IsDigit(c) == c \in 48..57

RECURSIVE DigitsVal(_)
DigitsVal(s) ==
  IF s = <<>> THEN 0
  ELSE 10 * DigitsVal(SubSeq(s, 1, Len(s) - 1)) + (s[Len(s)] - 48)

AllDigits(s) == s # <<>> /\ \A i \in 1..Len(s) : IsDigit(s[i])

\* Parse of a decimal literal with an optional sign and at most two decimals,
\* the precision the model's coordinates have; other text is not a number.
ParseCenti(s) ==
  LET neg == s # <<>> /\ s[1] = 45
      body == IF neg THEN Tail(s) ELSE s
      dots == {i \in 1..Len(body) : body[i] = 46}
      sign == IF neg THEN -1 ELSE 1
  IN IF dots = {}
     THEN IF AllDigits(body) THEN Num(sign * 100 * DigitsVal(body)) ELSE NA
     ELSE IF Cardinality(dots) # 1 THEN NA
     ELSE LET p == CHOOSE i \in dots : TRUE
              ip == SubSeq(body, 1, p - 1)
              fp == SubSeq(body, p + 1, Len(body))
          IN IF /\ ip = <<>> \/ AllDigits(ip)
                /\ fp = <<>> \/ AllDigits(fp)
                /\ Len(ip) + Len(fp) > 0 /\ Len(fp) <= 2
             THEN Num(sign * (100 * DigitsVal(ip)
                              + (IF Len(fp) = 1 THEN 10 * DigitsVal(fp)
                                 ELSE DigitsVal(fp))))
             ELSE NA

\* pd.to_numeric(..., errors="coerce") on one cell.
to_numeric(cell) ==
  IF cell.t = "num" THEN cell
  ELSE IF cell.t = "str" THEN ParseCenti(cell.v)
  ELSE NA

(* ---------------------------- tables ----------------------------------- *)

\* A DataFrame: its column labels and its rows.  A row maps every column
\* label to a cell, and "index" to the row's index label.
Column(frame, col) == [i \in 1..Len(frame.rows) |-> frame.rows[i][col]]

\* pd.DataFrame(records): the columns are the keys that occur in some
\* record; a record without a key gets a missing cell there.
DataFrame(recs) ==
  LET cols == UNION {DOMAIN recs[i] : i \in 1..Len(recs)}
  IN [cols |-> cols,
      rows |-> [i \in 1..Len(recs) |->
                 [c \in cols \cup {"index"} |->
                    IF c = "index" THEN Num(i - 1)
                    ELSE IF c \in DOMAIN recs[i] THEN recs[i][c] ELSE NA]]]

ColumnNames(c) ==
  CASE c = "RegionGlosa" -> "Region"
    [] c = "ComunaGlosa" -> "Comuna"
    [] c = "EstablecimientoGlosa" -> "Nombre"
    [] c = "TipoEstablecimientoGlosa" -> "Tipo"
    [] c = "Latitud" -> "Lat"
    [] c = "Longitud" -> "Lon"
    [] c = "TieneServicioUrgencia" -> "Urgencia"
    [] c = "TipoUrgencia" -> "UrgenciaTipo"
    [] OTHER -> c

\* df.rename(columns=...): labels not in the mapping are kept.
rename(frame) ==
  LET old == frame.cols \cup {"index"}
      src(c) == CHOOSE k \in old : ColumnNames(k) = c
  IN [cols |-> {ColumnNames(c) : c \in frame.cols},
      rows |-> [i \in 1..Len(frame.rows) |->
                 [c \in {ColumnNames(k) : k \in old} |-> frame.rows[i][src(c)]]]]

\* df[col] = to_numeric(df[col]) on an existing column.
CoerceColumn(frame, col) ==
  [frame EXCEPT !.rows =
     [i \in 1..Len(frame.rows) |->
        [frame.rows[i] EXCEPT ![col] = to_numeric(frame.rows[i][col])]]]

\* df.dropna(subset=...): a new table with the rows that have every cell of
\* the subset present, in the same order.
dropna(frame, subset) ==
  LET Keep(row) == \A c \in subset : row[c] # NA
  IN [frame EXCEPT !.rows = SelectSeq(frame.rows, Keep)]

NoFrame == [cols |-> {}, rows |-> <<>>]

Required == {"Region", "Comuna", "Nombre", "Tipo"}

\* Lines 34-58: build df.  A column the data source did not deliver makes
\* the subscript or dropna raise KeyError and the script aborts.
Load(recs) ==
  LET df0 == rename(DataFrame(recs))
  IN IF "Lat" \notin df0.cols THEN [status |-> "KeyError_Lat", df |-> df0]
     ELSE IF "Lon" \notin df0.cols
     THEN [status |-> "KeyError_Lon", df |-> CoerceColumn(df0, "Lat")]
     ELSE LET df1 == CoerceColumn(CoerceColumn(df0, "Lat"), "Lon")
          IN IF ~(Required \subseteq df1.cols)
             THEN [status |-> "KeyError_dropna", df |-> df1]
             ELSE [status |-> "ok", df |-> dropna(df1, Required)]

(* ---------------------------- widgets ---------------------------------- *)

\* st.selectbox: the widget keeps its value across executions while it is
\* the same widget (same label and options) and was drawn by the previous
\* execution; otherwise it shows its first option.
selectbox(options, drawn, old_options, old_value) ==
  IF drawn /\ old_options = options /\ (\E i \in 1..Len(options) : options[i] = old_value)
  THEN old_value
  ELSE options[1]

\* st.multiselect(options, default=options), its value taken as a set.
multiselect(options, drawn, old_options, old_value) ==
  IF drawn /\ old_options = options THEN old_value
  ELSE {options[i] : i \in 1..Len(options)}

\* st.number_input / st.slider with a default value.
number_input(default, drawn, old_value) == IF drawn THEN old_value ELSE default

(* ---------------------------- filters ---------------------------------- *)

\* Line 69.
FilterRegion(df, region_sel) ==
  IF region_sel = Str(Todas) THEN df
  ELSE LET Keep(row) == row["Region"] = region_sel
       IN [df EXCEPT !.rows = SelectSeq(df.rows, Keep)]

ComunaOptions_FullTable(df, df_filt) == sorted(unique(Column(df, "Comuna")))
\* Line 72: the commune options come from the region-filtered table.
ComunaOptions(df, df_filt) == sorted(unique(Column(df_filt, "Comuna")))

FilterComuna_Skipped(df_filt, comuna_sel) == df_filt
\* Lines 75-76.
FilterComuna(df_filt, comuna_sel) ==
  IF comuna_sel # Str(Todas)
  THEN LET Keep(row) == row["Comuna"] = comuna_sel
       IN [df_filt EXCEPT !.rows = SelectSeq(df_filt.rows, Keep)]
  ELSE df_filt

FilterTipo_EmptyIsAll(df_filt, tipo_sel) ==
  LET Keep(row) == tipo_sel = {} \/ row["Tipo"] \in tipo_sel
  IN [df_filt EXCEPT !.rows = SelectSeq(df_filt.rows, Keep)]
\* Line 82: isin.
FilterTipo(df_filt, tipo_sel) ==
  LET Keep(row) == row["Tipo"] \in tipo_sel
  IN [df_filt EXCEPT !.rows = SelectSeq(df_filt.rows, Keep)]

\* Lines 88-91, on a table that has the UrgenciaTipo column.
FilterUrgencia(df_filt, urg_sel) ==
  IF urg_sel = Str(Publico)
  THEN LET Keep(row) == StrContains(row["UrgenciaTipo"], Publico, FALSE)
       IN [df_filt EXCEPT !.rows = SelectSeq(df_filt.rows, Keep)]
  ELSE IF urg_sel = Str(Privado)
  THEN LET Keep(row) == StrContains(row["UrgenciaTipo"], Privado, FALSE)
       IN [df_filt EXCEPT !.rows = SelectSeq(df_filt.rows, Keep)]
  ELSE df_filt

urgencias_opciones == <<Str(Todos), Str(Publico), Str(Privado)>>

(* ---------------------------- derived tables --------------------------- *)

MapTable_LatOnly(df_filt) == dropna(df_filt, {"Lat"})
\* Line 109: the rows that have both coordinates.
MapTable(df_filt) == dropna(df_filt, {"Lat", "Lon"})

\* The values of the expression of lines 180-186 in IEEE-754 binary64 for the
\* coordinates of the model, as <<lat_user, lon_user, lat, lon>> in
\* hundredths of a degree.  over: the argument handed to arccos is greater
\* than 1.  mm: 6371 * arccos(argument) in km, times 1000, rounded up, so
\* that mm = 0 exactly when the distance is 0.0 and mm <= 1000 * r exactly
\* when the distance is <= r for a whole number r.
ArcTable ==
  (<<-3345, -7065, -3350, -7065>> :> [over |-> FALSE, mm |-> 5560]) @@
  (<<-3345, -7065, -3347, -7065>> :> [over |-> FALSE, mm |-> 2224]) @@
  (<<-3345, -7065, -3345, -7065>> :> [over |-> FALSE, mm |-> 0]) @@
  (<<-3345, -7065, -3710, -7065>> :> [over |-> FALSE, mm |-> 405862]) @@
  (<<-3345, -7060, -3350, -7065>> :> [over |-> FALSE, mm |-> 7240]) @@
  (<<-3345, -7060, -3347, -7065>> :> [over |-> FALSE, mm |-> 5144]) @@
  (<<-3345, -7060, -3345, -7065>> :> [over |-> FALSE, mm |-> 4639]) @@
  (<<-3345, -7060, -3710, -7065>> :> [over |-> FALSE, mm |-> 405887]) @@
  (<<-3710, -7065, -3350, -7065>> :> [over |-> FALSE, mm |-> 400302]) @@
  (<<-3710, -7065, -3347, -7065>> :> [over |-> FALSE, mm |-> 403638]) @@
  (<<-3710, -7065, -3345, -7065>> :> [over |-> FALSE, mm |-> 405862]) @@
  (<<-3710, -7065, -3710, -7065>> :> [over |-> TRUE, mm |-> 0]) @@
  (<<-3710, -7060, -3350, -7065>> :> [over |-> FALSE, mm |-> 400328]) @@
  (<<-3710, -7060, -3347, -7065>> :> [over |-> FALSE, mm |-> 403664]) @@
  (<<-3710, -7060, -3345, -7065>> :> [over |-> FALSE, mm |-> 405887]) @@
  (<<-3710, -7060, -3710, -7065>> :> [over |-> FALSE, mm |-> 4435])

\* Lines 179-186.  np.arccos of an argument above 1 is NaN, and so is any
\* result computed from a NaN coordinate; the argument is used as computed.
dist(lat1, lon1, lat2, lon2) ==
  IF lat2 = NA \/ lon2 = NA THEN NA
  ELSE LET e == ArcTable[<<lat1, lon1, Val(lat2), Val(lon2)>>]
       IN IF e.over THEN NA ELSE Num(e.mm)

WithDistancia(frame, lat_user, lon_user) ==
  [cols |-> frame.cols \cup {"Distancia"},
   rows |-> [i \in 1..Len(frame.rows) |->
              [c \in DOMAIN frame.rows[i] \cup {"Distancia"} |->
                 IF c = "Distancia"
                 THEN dist(lat_user, lon_user, frame.rows[i]["Lat"], frame.rows[i]["Lon"])
                 ELSE frame.rows[i][c]]]]

AssignDistancia_IntoDf(df, df_map, lat_user, lon_user) ==
  [df |-> WithDistancia(df, lat_user, lon_user),
   df_dist |-> WithDistancia(df_map, lat_user, lon_user)]
\* Lines 188-190: the column is added to a copy of df_map.
AssignDistancia(df, df_map, lat_user, lon_user) ==
  [df |-> df, df_dist |-> WithDistancia(df_map, lat_user, lon_user)]

\* Line 192: a comparison with NaN is False.
Cerca(df_dist, radio_km) ==
  LET Keep(row) == row["Distancia"].t = "num" /\ Val(row["Distancia"]) <= 1000 * radio_km
  IN [df_dist EXCEPT !.rows = SelectSeq(df_dist.rows, Keep)]

\* Line 197, on a table that has the Urgencia column.
Urg24(df_filt) ==
  LET Keep(row) == StrContains(row["Urgencia"], Si, FALSE)
  IN [df_filt EXCEPT !.rows = SelectSeq(df_filt.rows, Keep)]

\* Places x behind every entry whose count is not smaller.
RECURSIVE InsertByCount(_, _)
InsertByCount(x, s) ==
  IF s = <<>> THEN <<x>>
  ELSE IF Head(s).count >= x.count THEN <<Head(s)>> \o InsertByCount(x, Tail(s))
  ELSE <<x>> \o s

RECURSIVE SortByCount(_)
SortByCount(s) ==
  IF s = <<>> THEN <<>>
  ELSE InsertByCount(s[Len(s)], SortByCount(SubSeq(s, 1, Len(s) - 1)))

\* Series.value_counts(): one entry per distinct value, by descending
\* count; entries of equal count stay in order of first appearance.
value_counts(s) ==
  LET u == unique(s)
  IN SortByCount([i \in 1..Len(u) |->
       [value |-> u[i],
        count |-> Cardinality({j \in 1..Len(s) : s[j] = u[i]})]])

head(s, n) == SubSeq(s, 1, IF Len(s) < n THEN Len(s) ELSE n)

\* Line 209.
TopN == 10

\* Defaults and range of the inputs of lines 175-177.
DefaultLat == -3345
DefaultLon == -7065
DefaultRadio == 10

(* ---------------------------- the script ------------------------------- *)

\* How far an execution of the script got.
\*   init                  no execution yet
\*   KeyError_Lat, KeyError_Lon, KeyError_dropna
\*                         aborted while building df (lines 55, 56, 58)
\*   KeyError_UrgenciaTipo aborted in the emergency filter (lines 89, 91)
\*   stopped               st.stop() on an empty result (line 100)
\*   KeyError_Urgencia     aborted in the 24h tab (line 197)
\*   ok                    ran to the last line
SidebarDrawn == {"KeyError_UrgenciaTipo", "stopped", "KeyError_Urgencia", "ok"}
FilterDone == {"stopped", "KeyError_Urgencia", "ok"}
Tab1Drawn == {"KeyError_Urgencia", "ok"}

\* Values of the variables an execution has not assigned.
Blank ==
  [status |-> "init", df |-> NoFrame,
   regiones |-> <<>>, region_sel |-> Str(Todas),
   comunas |-> <<>>, comuna_sel |-> Str(Todas),
   tipos |-> <<>>, tipo_sel |-> {}, urg_sel |-> Str(Todos),
   df_filt |-> NoFrame, df_map |-> NoFrame,
   lat_user |-> DefaultLat, lon_user |-> DefaultLon, radio_km |-> DefaultRadio,
   df_dist |-> NoFrame, cerca |-> NoFrame, urg24 |-> NoFrame, ranking |-> <<>>]

\* The script is a sequence of steps.  A step takes the variables e as the
\* steps before it left them and returns them as it leaves them; w holds the
\* values the previous execution left, with the user's change applied.  A
\* step is skipped once the execution has aborted or stopped.  The drawing
\* of the map and of the charts (lines 111-159, 203-205, 211) reads the
\* tables and assigns none of them.

\* Lines 34-58.
StepLoad(recs) ==
  LET ld == Load(recs)
  IN [status |-> IF ld.status = "ok" THEN "running" ELSE ld.status,
      df |-> ld.df] @@ Blank

\* Lines 66-69.
StepRegion(e, w) ==
  IF e.status # "running" THEN e
  ELSE LET opts == sorted(unique(Column(e.df, "Region")))
           sel == selectbox(<<Str(Todas)>> \o opts, w.status \in SidebarDrawn,
                            <<Str(Todas)>> \o w.regiones, w.region_sel)
       IN [regiones |-> opts, region_sel |-> sel,
           df_filt |-> FilterRegion(e.df, sel)] @@ e

\* Lines 72-76.
StepComuna(e, w) ==
  IF e.status # "running" THEN e
  ELSE LET opts == ComunaOptions(e.df, e.df_filt)
           sel == selectbox(<<Str(Todas)>> \o opts, w.status \in SidebarDrawn,
                            <<Str(Todas)>> \o w.comunas, w.comuna_sel)
       IN [comunas |-> opts, comuna_sel |-> sel,
           df_filt |-> FilterComuna(e.df_filt, sel)] @@ e

\* Lines 79-82.
StepTipo(e, w) ==
  IF e.status # "running" THEN e
  ELSE LET opts == sorted(unique(Column(e.df, "Tipo")))
           sel == multiselect(opts, w.status \in SidebarDrawn, w.tipos, w.tipo_sel)
       IN [tipos |-> opts, tipo_sel |-> sel,
           df_filt |-> FilterTipo(e.df_filt, sel)] @@ e

\* Lines 85-91.  Subscripting a column the table does not have raises
\* KeyError; df_filt then stays as the type filter left it.
StepUrgencia(e, w) ==
  IF e.status # "running" THEN e
  ELSE LET sel == selectbox(urgencias_opciones, w.status \in SidebarDrawn,
                            urgencias_opciones, w.urg_sel)
       IN IF sel # Str(Todos) /\ "UrgenciaTipo" \notin e.df_filt.cols
          THEN [status |-> "KeyError_UrgenciaTipo", urg_sel |-> sel] @@ e
          ELSE [urg_sel |-> sel, df_filt |-> FilterUrgencia(e.df_filt, sel)] @@ e

\* Lines 98-100.
StepResultados(e) ==
  IF e.status # "running" THEN e
  ELSE IF e.df_filt.rows = <<>> THEN [status |-> "stopped"] @@ e
  ELSE e

\* Line 109.
StepMapa(e) ==
  IF e.status # "running" THEN e
  ELSE [df_map |-> MapTable(e.df_filt)] @@ e

\* Lines 174-193.
StepCercanos(e, w) ==
  IF e.status # "running" THEN e
  ELSE LET lat == number_input(DefaultLat, w.status \in Tab1Drawn, w.lat_user)
           lon == number_input(DefaultLon, w.status \in Tab1Drawn, w.lon_user)
           radio == number_input(DefaultRadio, w.status \in Tab1Drawn, w.radio_km)
           ad == AssignDistancia(e.df, e.df_map, lat, lon)
       IN [lat_user |-> lat, lon_user |-> lon, radio_km |-> radio,
           df |-> ad.df, df_dist |-> ad.df_dist,
           cerca |-> Cerca(ad.df_dist, radio)] @@ e

\* Lines 196-199.
StepUrg24(e) ==
  IF e.status # "running" THEN e
  ELSE IF "Urgencia" \notin e.df_filt.cols
  THEN [status |-> "KeyError_Urgencia"] @@ e
  ELSE [urg24 |-> Urg24(e.df_filt)] @@ e

\* Lines 208-211: the last step.
StepRanking(e) ==
  IF e.status # "running" THEN e
  ELSE [status |-> "ok",
        ranking |-> head(value_counts(Column(e.df_filt, "Comuna")), TopN)] @@ e

(* ---------------------------- the data source -------------------------- *)

\* A raw record: the keys whose value is NoKey are left out.
Record(region, comuna, nombre, tipo, lat, lon, urgencia, tipo_urgencia) ==
  LET full == [RegionGlosa |-> region, ComunaGlosa |-> comuna,
               EstablecimientoGlosa |-> nombre, TipoEstablecimientoGlosa |-> tipo,
               Latitud |-> lat, Longitud |-> lon,
               TieneServicioUrgencia |-> urgencia, TipoUrgencia |-> tipo_urgencia]
  IN [k \in {k \in DOMAIN full : full[k] # NoKey} |-> full[k]]

\* Records the data source may return.  Regions "A", "B", " A", "" or
\* left out; communes "a", "b", "c"; types "H", "C"; coordinates as numbers,
\* as decimal text, as other text or left out; the emergency kind as text,
\* null or left out.
SampleRecords ==
  { Record(Str(<<65>>), Str(<<98>>), Str(<<78>>), Str(<<72>>),
           Num(-3350), Num(-7065), Str(Si), Str(Publico)),
    Record(Str(<<65>>), Str(<<97>>), Str(<<78>>), Str(<<67>>),
           Str(<<45, 51, 51, 46, 52, 55>>), Str(<<45, 55, 48, 46, 54, 53>>),
           Str(Si), Str(Privado \o <<32, 121, 32>> \o Publico)),
    Record(Str(<<66>>), Str(<<99>>), Str(<<78>>), Str(<<72>>),
           Num(-3345), Num(-7065), Str(<<78, 111>>), NA),
    Record(Str(<<66>>), Str(<<97>>), Str(<<78>>), Str(<<67>>),
           Num(-3710), Num(-7065), Str(Si), NoKey),
    Record(Str(<<32, 65>>), Str(<<98>>), Str(<<78>>), Str(<<72>>),
           Num(-3345), NoKey, NoKey, Str(Privado)),
    Record(Str(<<>>), Str(<<99>>), Str(<<78>>), Str(<<67>>),
           NoKey, Str(<<115, 47, 110>>), Str(Si), NoKey),
    Record(NoKey, Str(<<97>>), Str(<<78>>), Str(<<72>>),
           Num(-3347), Num(-7065), Str(Si), Str(Publico)) }

Tables == UNION {[1..n -> SampleRecords] : n \in 0..MaxRows}

\* Values the user enters for the reference point and the radius.
Lats == {-3345, -3710}
Lons == {-7065, -7060}
Radios == {3, 10}

(* ---------------------------- state ------------------------------------ *)

VARIABLES records, status, df, regiones, region_sel, comunas, comuna_sel,
          tipos, tipo_sel, urg_sel, df_filt, df_map, lat_user, lon_user,
          radio_km, df_dist, cerca, urg24, ranking

vars == <<records, status, df, regiones, region_sel, comunas, comuna_sel,
          tipos, tipo_sel, urg_sel, df_filt, df_map, lat_user, lon_user,
          radio_km, df_dist, cerca, urg24, ranking>>

Cur ==
  [status |-> status, df |-> df, regiones |-> regiones, region_sel |-> region_sel,
   comunas |-> comunas, comuna_sel |-> comuna_sel, tipos |-> tipos,
   tipo_sel |-> tipo_sel, urg_sel |-> urg_sel, df_filt |-> df_filt,
   df_map |-> df_map, lat_user |-> lat_user, lon_user |-> lon_user,
   radio_km |-> radio_km, df_dist |-> df_dist, cerca |-> cerca,
   urg24 |-> urg24, ranking |-> ranking]

Assign(o) ==
  /\ status' = o.status /\ df' = o.df
  /\ regiones' = o.regiones /\ region_sel' = o.region_sel
  /\ comunas' = o.comunas /\ comuna_sel' = o.comuna_sel
  /\ tipos' = o.tipos /\ tipo_sel' = o.tipo_sel /\ urg_sel' = o.urg_sel
  /\ df_filt' = o.df_filt /\ df_map' = o.df_map
  /\ lat_user' = o.lat_user /\ lon_user' = o.lon_user /\ radio_km' = o.radio_km
  /\ df_dist' = o.df_dist /\ cerca' = o.cerca
  /\ urg24' = o.urg24 /\ ranking' = o.ranking
  /\ UNCHANGED records

\* One execution of the script, from its first line to its last or to the
\* line that aborts or stops it.
Script(w) ==
  \E e1 \in {StepLoad(records)} :
  \E e2 \in {StepRegion(e1, w)} :
  \E e3 \in {StepComuna(e2, w)} :
  \E e4 \in {StepTipo(e3, w)} :
  \E e5 \in {StepUrgencia(e4, w)} :
  \E e6 \in {StepResultados(e5)} :
  \E e7 \in {StepMapa(e6)} :
  \E e8 \in {StepCercanos(e7, w)} :
  \E e9 \in {StepUrg24(e8)} :
    Assign(StepRanking(e9))

Init ==
  /\ records \in Tables
  /\ status = Blank.status /\ df = Blank.df
  /\ regiones = Blank.regiones /\ region_sel = Blank.region_sel
  /\ comunas = Blank.comunas /\ comuna_sel = Blank.comuna_sel
  /\ tipos = Blank.tipos /\ tipo_sel = Blank.tipo_sel /\ urg_sel = Blank.urg_sel
  /\ df_filt = Blank.df_filt /\ df_map = Blank.df_map
  /\ lat_user = Blank.lat_user /\ lon_user = Blank.lon_user
  /\ radio_km = Blank.radio_km
  /\ df_dist = Blank.df_dist /\ cerca = Blank.cerca
  /\ urg24 = Blank.urg24 /\ ranking = Blank.ranking

\* The page is opened: first execution, every widget at its default.
StartSession ==
  /\ status = "init"
  /\ Script(Cur)

\* Line 67.
SelectRegion ==
  /\ status \in SidebarDrawn
  /\ \E i \in 1..Len(regiones) + 1 :
       LET r == (<<Str(Todas)>> \o regiones)[i]
       IN r # region_sel /\ Script([Cur EXCEPT !.region_sel = r])

\* Line 73.
SelectComuna ==
  /\ status \in SidebarDrawn
  /\ \E i \in 1..Len(comunas) + 1 :
       LET c == (<<Str(Todas)>> \o comunas)[i]
       IN c # comuna_sel /\ Script([Cur EXCEPT !.comuna_sel = c])

\* Line 80.
SelectTipos ==
  /\ status \in SidebarDrawn
  /\ \E S \in SUBSET {tipos[i] : i \in 1..Len(tipos)} :
       S # tipo_sel /\ Script([Cur EXCEPT !.tipo_sel = S])

\* Line 86.
SelectUrgencia ==
  /\ status \in SidebarDrawn
  /\ \E i \in 1..Len(urgencias_opciones) :
       /\ urgencias_opciones[i] # urg_sel
       /\ Script([Cur EXCEPT !.urg_sel = urgencias_opciones[i]])

\* Line 175.
SetLat ==
  /\ status \in Tab1Drawn
  /\ \E x \in Lats \ {lat_user} : Script([Cur EXCEPT !.lat_user = x])

\* Line 176.
SetLon ==
  /\ status \in Tab1Drawn
  /\ \E x \in Lons \ {lon_user} : Script([Cur EXCEPT !.lon_user = x])

\* Line 177.
SetRadio ==
  /\ status \in Tab1Drawn
  /\ \E x \in Radios \ {radio_km} : Script([Cur EXCEPT !.radio_km = x])

Next ==
  \/ StartSession
  \/ SelectRegion
  \/ SelectComuna
  \/ SelectTipos
  \/ SelectUrgencia
  \/ SetLat
  \/ SetLon
  \/ SetRadio

Spec == Init /\ [][Next]_vars

(* ---------------------------- properties ------------------------------- *)

RowsOf(frame) == {frame.rows[i] : i \in 1..Len(frame.rows)}
IndexOf(frame) == {frame.rows[i]["index"] : i \in 1..Len(frame.rows)}
SetOf(list) == {list[i] : i \in 1..Len(list)}

\* The four criteria of the sidebar, as one predicate on a row of df.
Matches(row) ==
  /\ region_sel = Str(Todas) \/ row["Region"] = region_sel
  /\ comuna_sel = Str(Todas) \/ row["Comuna"] = comuna_sel
  /\ row["Tipo"] \in tipo_sel
  /\ \/ urg_sel = Str(Todos)
     \/ /\ row["UrgenciaTipo"].t = "str"
        /\ Contains(row["UrgenciaTipo"].v, urg_sel.v)

\* C1: once the filter chain has run, df_filt is the subsequence of df, in
\* the order of df, of exactly the rows that satisfy all four criteria.
C1_FilterIsConjunction ==
  status \in FilterDone =>
    /\ df_filt.cols = df.cols
    /\ df_filt.rows = SelectSeq(df.rows, Matches)

\* C1 witness: every criterion is active, it keeps a row and drops a row.
C1_Witness ==
  /\ status \in FilterDone
  /\ region_sel # Str(Todas) /\ comuna_sel # Str(Todas) /\ urg_sel # Str(Todos)
  /\ tipo_sel # SetOf(tipos)
  /\ df_filt.rows # <<>>
  /\ Len(df_filt.rows) < Len(df.rows)

\* C2: the commune options are the distinct communes of the rows of the
\* selected region (of all rows under "Todas"), a subset of the communes of
\* the table, and the commune applied is "Todas" or one of these options.
C2_ComunaOptionsScoped ==
  status \in SidebarDrawn =>
    /\ SetOf(comunas) =
         {r["Comuna"] : r \in {q \in RowsOf(df) :
                                 region_sel = Str(Todas) \/ q["Region"] = region_sel}}
    /\ SetOf(comunas) \subseteq {r["Comuna"] : r \in RowsOf(df)}
    /\ comuna_sel = Str(Todas) \/ comuna_sel \in SetOf(comunas)

\* C2 witness: a region and one of its communes are selected, and the table
\* has a commune that this region does not have.
C2_Witness ==
  /\ status \in SidebarDrawn
  /\ region_sel # Str(Todas) /\ comuna_sel # Str(Todas)
  /\ \E r \in RowsOf(df) : r["Comuna"] \notin SetOf(comunas)

\* C3: with no type chosen the filtered table is empty.
C3_EmptyTypeSetEmptyResult ==
  (status \in SidebarDrawn /\ tipo_sel = {}) => df_filt.rows = <<>>

\* C3 witness: no type is chosen on a table that has rows and types.
C3_Witness ==
  /\ status = "stopped" /\ tipo_sel = {}
  /\ df.rows # <<>> /\ tipos # <<>>
  /\ region_sel = Str(Todas) /\ comuna_sel = Str(Todas) /\ urg_sel = Str(Todos)

\* C4: under "Público" or "Privado" the filter step does not raise, and keeps
\* exactly the rows whose kind is present and contains the selected word.
C4_UrgenciaFilterNeverRaises ==
  (status \in SidebarDrawn /\ urg_sel # Str(Todos)) =>
    /\ status # "KeyError_UrgenciaTipo"
    /\ df_filt.rows = SelectSeq(df.rows, Matches)

\* C5: at the end of every execution that built df, df is the table the
\* normalization produced, without a Distancia column.
C5_DfUnchanged ==
  status \in SidebarDrawn =>
    /\ df = Load(records).df
    /\ "Distancia" \notin df.cols

\* C5 witness: the proximity search has added Distancia to its own table
\* while a filter has dropped rows of df.
C5_Witness ==
  /\ status = "ok"
  /\ df_dist.rows # <<>> /\ "Distancia" \in df_dist.cols
  /\ Len(df_filt.rows) < Len(df.rows)

WithinRadio(row) ==
  LET d == dist(lat_user, lon_user, row["Lat"], row["Lon"])
  IN d.t = "num" /\ Val(d) <= 1000 * radio_km

\* C6: the proximity result holds exactly the rows of df_map within the
\* radius, in ascending order of distance.
C6_CercaAscendingWithinRadio ==
  status \in Tab1Drawn =>
    /\ IndexOf(cerca) = {r["index"] : r \in {q \in RowsOf(df_map) : WithinRadio(q)}}
    /\ \A i \in 1..(Len(cerca.rows) - 1) :
         Val(cerca.rows[i]["Distancia"]) <= Val(cerca.rows[i + 1]["Distancia"])

\* A raw cell that is a number or decimal text.
IsNumeric(rec, key) ==
  /\ key \in DOMAIN rec
  /\ \/ rec[key].t = "num"
     \/ rec[key].t = "str" /\ ParseCenti(rec[key].v) # NA

Geolocated(i) == IsNumeric(records[i], "Latitud") /\ IsNumeric(records[i], "Longitud")

\* C7: a record without a numeric latitude or longitude has no row in the
\* distance table or in the proximity result, and every such row of df that
\* satisfies the criteria is in df_filt.
C7_NoCoordinatesNoDistance ==
  /\ status \in Tab1Drawn =>
       \A i \in 1..Len(records) :
         ~Geolocated(i) =>
           /\ Num(i - 1) \notin IndexOf(df_dist)
           /\ Num(i - 1) \notin IndexOf(cerca)
  /\ status \in FilterDone =>
       \A r \in RowsOf(df) :
         (r["Lat"] = NA \/ r["Lon"] = NA) /\ Matches(r) => r \in RowsOf(df_filt)

\* C7 witness: the filtered table holds a row without coordinates next to a
\* row that got a distance.
C7_Witness ==
  /\ status \in Tab1Drawn
  /\ \E r \in RowsOf(df_filt) : r["Lat"] = NA \/ r["Lon"] = NA
  /\ df_dist.rows # <<>>

\* C8: the ranking is in descending order of count, equal counts in
\* ascending order of commune name, and is no longer than TopN nor than the
\* number of distinct communes of df_filt.
C8_RankingOrder ==
  status = "ok" =>
    /\ \A i \in 1..(Len(ranking) - 1) :
         \/ ranking[i].count > ranking[i + 1].count
         \/ /\ ranking[i].count = ranking[i + 1].count
            /\ StrLess(ranking[i].value.v, ranking[i + 1].value.v)
    /\ Len(ranking) <= TopN
    /\ Len(ranking) <= Cardinality({r["Comuna"] : r \in RowsOf(df_filt)})

IsSpace(c) == c = 32 \/ c \in 9..13

Trimmed(s) == s = <<>> \/ (~IsSpace(s[1]) /\ ~IsSpace(s[Len(s)]))

OptionListOK(list, frame, col) ==
  /\ \A i \in 1..(Len(list) - 1) : StrLess(list[i].v, list[i + 1].v)
  /\ \A i \in 1..Len(list) :
       /\ list[i].v # <<>>
       /\ Trimmed(list[i].v)
       /\ \E r \in RowsOf(frame) : r[col] = list[i]

\* C9: the region, commune and type option lists are strictly ascending,
\* hold no empty string, only trimmed values, only values of the table.
C9_OptionLists ==
  status \in SidebarDrawn =>
    /\ OptionListOK(regiones, df, "Region")
    /\ OptionListOK(comunas, df, "Comuna")
    /\ OptionListOK(tipos, df, "Tipo")

\* C10: a row of df_map at the reference point is in the proximity result
\* with distance 0.0.
C10_CollocatedAtZero ==
  status \in Tab1Drawn =>
    \A r \in RowsOf(df_map) :
      (r["Lat"] = Num(lat_user) /\ r["Lon"] = Num(lon_user)) =>
        \E c \in RowsOf(cerca) :
          c["index"] = r["index"] /\ c["Distancia"] = Num(0)

====
